---- MODULE Spec2Model ----
(***************************************************************************)
(* Model of src/app.py (motionpitch): the /generate request handler with   *)
(* its guest quota gate, the planner with its process-wide context cache,  *)
(* the thread-pool image batch with the slide-0 video step, the Veo        *)
(* polling loop and the final save.                                        *)
(*                                                                         *)
(* Spec: one browser session issues requests one after the other to one   *)
(* server process.  SpecVideo: one generate_video call, step by step.      *)
(* SpecConcurrent: requests of one anonymous session handled at the same   *)
(* time.  SpecPool: the batch of a plan with more slides than workers.     *)
(* The remote provider's answers are inputs chosen with \E.                *)
(***************************************************************************)
EXTENDS Integers, Sequences, FiniteSets, TLC

\* ------------------------------------------------------------- bounds
\* largest number of slides a plan returned by the planner holds
MaxSlides == 2
\* how many times the remote cache creation may fail in one process
MaxCacheFailures == 1
\* how many times the uploaded document may answer PROCESSING
MaxUploadPolls == 1
\* how many guest requests may carry a slide_count that is no integer
MaxBadForms == 1
\* largest number of slides of the plan whose batch is followed on its own
MaxPoolSlides == 6
\* how many requests of one session the server handles at the same time
MaxThreads == 2
\* how many guest admissions beyond GuestLimit are followed
MaxOverQuota == 1

\* -------------------------------------------------- program constants
\* guest_limit_check: usage >= 15
GuestLimit == 15
\* generate_video: max_polls = 120
max_polls == 120
\* generate: ThreadPoolExecutor(max_workers=5)
max_workers == 5
\* generate: request.form.get('slide_count', 3)
DefaultSlideCount == 3

\* ------------------------------------------------------------- values
\* Python's None; file names, URLs and integers are pairs <<kind, number>>
None == <<"None", -1>>
\* an int
PyInt(n) == <<"int", n>>
\* a local variable that has not been assigned yet
Unbound == <<"unbound", -1>>
\* url_for('static', filename='placeholder.png')
PlaceholderUrl == <<"static/placeholder.png", -1>>
\* f"img_{uuid.uuid4()}.png" saved for slide i, and its path in UPLOAD_FOLDER
ImageFile(i) == <<"img.png", i>>
ImagePath(i) == <<"static/uploads/img.png", i>>
\* url_for('static', filename=f'uploads/{img_url}')
ImageUrl(img_url) == <<"url:uploads/img.png", img_url[2]>>
\* url_for('static', filename=f'uploads/veo_{uuid}.mp4') made from image path p
VideoUrl(p) == <<"url:uploads/veo.mp4", p[2]>>

VARIABLES
    user,                   \* session['user_id'] is set (g.user is not None)
    guest_usage,            \* session['guest_usage'] (0 when absent)
    guest_admitted,         \* guest requests the decorator has passed on to generate
    cached_architect_name,  \* the module global
    create_calls,           \* client.caches.create calls issued by the process
    pc,                     \* where the request in flight stands
    response,               \* answer to the last request
    form_slide_count,       \* request.form 'slide_count' of the request
    slide_count,            \* generate: local slide_count
    enable_video,           \* generate: local enable_video
    pdf_path,               \* generate: a document was submitted
    contents,               \* plan_presentation: local contents
    file_ref,               \* plan_presentation: file_ref.state.name ("none": unassigned)
    upload_polls,           \* client.files.get calls of the request
    cached_name,            \* plan_presentation: local cached_name
    plan_outcome,           \* how the planning request of the request ended
    plan,                   \* generate: local plan
    slides,                 \* generate: local slides
    tasks,                  \* the executor's futures, by slide index
    media_url,              \* generate: local media_url (kept across iterations)
    plan_calls,             \* planning requests issued by the request
    video_calls,            \* generate_video calls made by the request
    video_outcome,          \* how the request's generate_video call ended
    inserted,               \* Presentations the request added to the database
    video,                  \* state of a generate_video run followed step by step
    threads                 \* the requests the server handles at the same time

vars == <<user, guest_usage, guest_admitted, cached_architect_name, create_calls, pc, response,
          form_slide_count, slide_count, enable_video, pdf_path, contents,
          file_ref, upload_polls, cached_name, plan_outcome, plan, slides, tasks, media_url, plan_calls,
          video_calls, video_outcome, inserted, video, threads>>

session_vars == <<user, guest_usage>>
cache_vars == <<cached_architect_name, create_calls>>
form_vars == <<form_slide_count, slide_count, enable_video, pdf_path>>
upload_vars == <<contents, file_ref, upload_polls, cached_name>>
plan_vars == <<plan_outcome, plan>>
batch_vars == <<slides, tasks, media_url, video_calls, video_outcome>>
log_vars == <<plan_calls, inserted>>

\* the empty mapping ([None] * 0, no futures)
Empty == [i \in {} |-> None]

\* plan is None
NonePlan == [title |-> "None", slides |-> Empty]
\* plan is an empty JSON value ({}, [], 0, "", null parsed from the response text)
EmptyJson == [title |-> "{}", slides |-> Empty]
\* a slot of slides that holds None
NoSlide == [title |-> -1, content |-> -1, media_url |-> None, media_type |-> "None"]
\* a future that has no result yet
NoResult == [idx |-> -1, img_url |-> None, local_path |-> None]

\* generate_video before it is called
VideoIdle == [pc |-> "idle", poll_count |-> 0, done |-> FALSE,
              has_video |-> FALSE, error |-> "none", ret |-> None]

\* the server's request threads
Threads == 1..MaxThreads
\* a thread that handles no request: session is the copy of the session the
\* request was sent with, cached_name the local of plan_presentation
ThreadIdle == [pc |-> "idle", session |-> 0, cached_name |-> None]

Init ==
    /\ user = FALSE
    /\ guest_usage = 0
    /\ guest_admitted = 0
    /\ cached_architect_name = None
    /\ create_calls = 0
    /\ pc = "idle"
    /\ response = "none"
    /\ form_slide_count = "absent"
    /\ slide_count = DefaultSlideCount
    /\ enable_video = FALSE
    /\ pdf_path = FALSE
    /\ contents = <<>>
    /\ file_ref = "none"
    /\ upload_polls = 0
    /\ cached_name = None
    /\ plan_outcome = "none"
    /\ plan = NonePlan
    /\ slides = Empty
    /\ tasks = Empty
    /\ media_url = Unbound
    /\ plan_calls = 0
    /\ video_calls = 0
    /\ video_outcome = "none"
    /\ inserted = <<>>
    /\ video = VideoIdle
    /\ threads = [t \in Threads |-> ThreadIdle]

\* ------------------------------------------------- session: login, logout
\* /login and /register: session['user_id'] = user.id
login ==
    /\ pc = "idle"
    /\ ~user
    /\ user' = TRUE
    /\ UNCHANGED <<guest_usage, guest_admitted, cache_vars, pc, response, form_vars, upload_vars,
                   plan_vars, batch_vars, log_vars, video, threads>>

\* /logout: session.pop('user_id', None)
logout ==
    /\ pc = "idle"
    /\ user
    /\ user' = FALSE
    /\ UNCHANGED <<guest_usage, guest_admitted, cache_vars, pc, response, form_vars, upload_vars,
                   plan_vars, batch_vars, log_vars, video, threads>>

\* ------------------------------------------------------------ quota gate
\* the values the form field slide_count is submitted with
SlideCountForms == {"absent", "2", "0", "abc"}

\* int(request.form.get('slide_count', 3)): the int, or None when int() raises
\* ValueError
int_slide_count(f) ==
    CASE f = "absent" -> PyInt(DefaultSlideCount)
      [] f = "2" -> PyInt(2)
      [] f = "0" -> PyInt(0)
      [] OTHER -> None

\* guest_limit_check.decorated_function: TRUE when f(*args) is called
GateOpen(g_user, usage) == g_user \/ ~(usage >= GuestLimit)

\* the view function returns: its locals are gone
Return(resp) ==
    /\ pc' = "idle"
    /\ response' = resp
    /\ form_slide_count' = "absent"
    /\ slide_count' = DefaultSlideCount
    /\ enable_video' = FALSE
    /\ pdf_path' = FALSE
    /\ contents' = <<>>
    /\ file_ref' = "none"
    /\ upload_polls' = 0
    /\ cached_name' = None
    /\ plan' = NonePlan
    /\ slides' = Empty
    /\ tasks' = Empty
    /\ media_url' = Unbound

\* a POST /generate arrives: load_user, then the decorator
guest_limit_check ==
    /\ pc = "idle"
    /\ \E f \in SlideCountForms, ev \in BOOLEAN, pdf \in BOOLEAN :
        /\ (~user /\ int_slide_count(f) = None)
              => guest_admitted - guest_usage < MaxBadForms
        /\ IF GateOpen(user, guest_usage)
           THEN /\ pc' = "generate"
                /\ response' = "none"
                /\ form_slide_count' = f
                /\ enable_video' = ev
                /\ pdf_path' = pdf
                /\ guest_admitted' = IF user THEN guest_admitted
                                     ELSE guest_admitted + 1
                \* the logs of the admitted request start empty
                /\ plan_outcome' = "none"
                /\ plan_calls' = 0
                /\ video_calls' = 0
                /\ video_outcome' = "none"
                /\ inserted' = <<>>
                /\ UNCHANGED <<session_vars, cache_vars, slide_count, upload_vars,
                               plan, slides, tasks, media_url, video, threads>>
           ELSE /\ response' = "Guest limit reached"
                /\ UNCHANGED <<session_vars, guest_admitted, cache_vars, pc,
                               form_vars, upload_vars, plan_vars, batch_vars,
                               log_vars, video, threads>>

\* ------------------------------------------------- generate, lines 383-396
\* reading the form and the guest increment
generate_begin ==
    /\ pc = "generate"
    /\ IF int_slide_count(form_slide_count) = None
       THEN \* ValueError leaves the view: 500
            /\ Return("Internal Server Error")
            /\ UNCHANGED <<session_vars, guest_admitted, cache_vars,
                           plan_outcome, video_calls, video_outcome, log_vars,
                           video, threads>>
       ELSE /\ slide_count' = int_slide_count(form_slide_count)[2]
            /\ guest_usage' = IF ~user THEN guest_usage + 1 ELSE guest_usage
            /\ pc' = "plan_presentation"
            \* the form is not read again
            /\ form_slide_count' = "absent"
            /\ UNCHANGED <<user, guest_admitted, cache_vars, response,
                           enable_video, pdf_path, upload_vars, plan_vars,
                           batch_vars, log_vars, video, threads>>

\* ------------------------------------------------------ plan_presentation
\* lines 283-301 without a document: contents = [user_prompt]
plan_prompt ==
    /\ pc = "plan_presentation"
    /\ ~pdf_path
    /\ contents' = <<"user_prompt">>
    /\ pc' = "get_cached_architect"
    /\ UNCHANGED <<session_vars, guest_admitted, cache_vars, response, form_vars,
                   file_ref, upload_polls, cached_name, plan_vars, batch_vars,
                   log_vars, video, threads>>

\* contents after the try block of lines 291-299, then line 301
ContentsAfterUploadAlways(uploaded) ==
    <<"file_ref", "user_prompt + pdf note">>
ContentsAfterUpload(uploaded) ==
    IF uploaded THEN <<"file_ref", "user_prompt + pdf note">>
    ELSE <<"user_prompt">>

\* lines 292-293: client.files.upload raises, or answers with a state
upload_pdf ==
    /\ pc = "plan_presentation"
    /\ pdf_path
    /\ \E answer \in {"raise", "PROCESSING", "ACTIVE"} :
        /\ pc' = IF answer = "PROCESSING" THEN "upload_poll"
                 ELSE "get_cached_architect"
        /\ contents' = IF answer = "PROCESSING" THEN contents
                       ELSE ContentsAfterUpload(answer = "ACTIVE")
        /\ file_ref' = IF answer = "raise" THEN file_ref ELSE answer
    /\ UNCHANGED <<session_vars, guest_admitted, cache_vars, response, form_vars,
                   upload_polls, cached_name, plan_vars, batch_vars, log_vars,
                   video, threads>>

\* lines 293-295: one more client.files.get while the state is PROCESSING
upload_poll ==
    /\ pc = "upload_poll"
    /\ \E answer \in {"raise", "PROCESSING", "ACTIVE"} :
        /\ answer = "PROCESSING" => upload_polls < MaxUploadPolls
        /\ pc' = IF answer = "PROCESSING" THEN "upload_poll"
                 ELSE "get_cached_architect"
        /\ contents' = IF answer = "PROCESSING" THEN contents
                       ELSE ContentsAfterUpload(answer = "ACTIVE")
        /\ file_ref' = IF answer = "raise" THEN file_ref ELSE answer
    /\ upload_polls' = upload_polls + 1
    /\ UNCHANGED <<session_vars, guest_admitted, cache_vars, response, form_vars,
                   cached_name, plan_vars, batch_vars, log_vars, video, threads>>

\* cache.name of the cache client.caches.create returns
CacheHandle == <<"cachedContents/architect", 0>>

\* AIService.get_cached_architect with the global at name; created says whether
\* client.caches.create succeeds.  called: the remote call is issued; name: the
\* global afterwards; ret: the value returned
GetCachedArchitectNoMemo(name, created) ==
    IF created
    THEN [called |-> TRUE, name |-> CacheHandle, ret |-> CacheHandle]
    ELSE [called |-> TRUE, name |-> name, ret |-> None]
GetCachedArchitect(name, created) ==
    IF name = None
    THEN IF created
         THEN [called |-> TRUE, name |-> CacheHandle, ret |-> CacheHandle]
         ELSE [called |-> TRUE, name |-> name, ret |-> None]
    ELSE [called |-> FALSE, name |-> name, ret |-> name]

\* line 304
get_cached_architect ==
    /\ pc = "get_cached_architect"
    /\ \E created \in BOOLEAN :
        /\ ~created => create_calls < MaxCacheFailures
        /\ LET r == GetCachedArchitect(cached_architect_name, created) IN
            /\ cached_architect_name' = r.name
            /\ create_calls' = IF r.called THEN create_calls + 1 ELSE create_calls
            /\ cached_name' = r.ret
    /\ pc' = "generate_content"
    /\ UNCHANGED <<session_vars, guest_admitted, response, form_vars, contents,
                   file_ref, upload_polls, plan_vars, batch_vars, log_vars, video, threads>>

\* the plans the planner answers with: n slides; slide 0's video_prompt may be
\* an empty string, the others are given one
PlanOf(n, vp) ==
    [title |-> "deck",
     slides |-> [i \in 0..(n - 1) |->
                   [title |-> i, content |-> i, visual_prompt |-> i,
                    video_prompt |-> IF i = 0 THEN vp ELSE TRUE]]]

PlanOutcomes == {"call_error", "parse_error", "empty_json", "ok"}

\* lines 306-325: what plan_presentation returns when the remote call ended as
\* outcome and p is what json.loads makes of a well-formed answer
plan_result_partial(outcome, p) ==
    IF outcome = "empty_json" THEN EmptyJson ELSE p
plan_result(outcome, p) ==
    CASE outcome = "ok" -> p
      [] outcome = "empty_json" -> EmptyJson
      [] OTHER -> NonePlan

\* lines 306-319: the planning request and json.loads
generate_content ==
    /\ pc = "generate_content"
    /\ \E outcome \in PlanOutcomes, n \in 0..MaxSlides, vp \in BOOLEAN :
        \* a video_prompt that is never read is left at one value
        /\ (~enable_video \/ n = 0 \/ outcome # "ok") => vp
        /\ plan_outcome' = outcome
        /\ plan' = plan_result(outcome, PlanOf(n, vp))
    /\ plan_calls' = plan_calls + 1
    /\ pc' = "planned"
    \* plan_presentation returns: its locals are gone, and generate reads
    \* slide_count and pdf_path no more
    /\ contents' = <<>>
    /\ file_ref' = "none"
    /\ upload_polls' = 0
    /\ cached_name' = None
    /\ slide_count' = DefaultSlideCount
    /\ pdf_path' = FALSE
    /\ UNCHANGED <<session_vars, guest_admitted, cache_vars, response,
                   form_slide_count, enable_video, batch_vars, inserted, video, threads>>

\* line 407: not plan
not_plan(p) == p = NonePlan \/ p = EmptyJson

\* lines 407-410
generate_planned ==
    /\ pc = "planned"
    /\ IF not_plan(plan)
       THEN /\ Return("Planning Failed")
            /\ UNCHANGED <<session_vars, guest_admitted, cache_vars,
                           plan_outcome, video_calls, video_outcome, log_vars,
                           video, threads>>
       ELSE /\ slides' = [i \in DOMAIN plan.slides |-> NoSlide]
            /\ pc' = "submit"
            /\ UNCHANGED <<session_vars, guest_admitted, cache_vars, response,
                           form_vars, upload_vars, plan_vars, tasks,
                           media_url, video_calls, video_outcome, log_vars,
                           video, threads>>

\* ------------------------------------------------------- the image batch
\* a future: queued in the executor, running on a worker, done with a result,
\* or yielded by as_completed (its result is then read no more)
Future(state, result) == [state |-> state, result |-> result]

\* ThreadPoolExecutor.submit: the i-th work item gets a new worker thread while
\* fewer than max_workers exist, else it waits in the work queue
StartsWorkerAlways(i) == TRUE
StartsWorker(i) == i < max_workers

\* lines 415-419: one executor.submit per slide
submit ==
    /\ pc = "submit"
    /\ tasks' = [i \in DOMAIN plan.slides |->
                   Future(IF StartsWorker(i) THEN "running" ELSE "queued",
                          NoResult)]
    /\ pc' = "as_completed"
    /\ UNCHANGED <<session_vars, guest_admitted, cache_vars, response, form_vars,
                   upload_vars, plan_vars, slides, media_url,
                   video_calls, video_outcome, log_vars, video, threads>>

ImageOutcomes == {"image", "no_parts", "exception"}

\* AIService.generate_image: the tuple returned
generate_image(prompt, slide_index, outcome) ==
    IF outcome = "image"
    THEN [idx |-> slide_index, img_url |-> ImageFile(slide_index),
          local_path |-> ImagePath(slide_index)]
    ELSE [idx |-> slide_index, img_url |-> None, local_path |-> None]

\* the worker that finished a task takes the oldest queued work item
NextQueued(t) ==
    IF \E j \in DOMAIN t : t[j].state = "queued"
    THEN {CHOOSE j \in DOMAIN t :
            /\ t[j].state = "queued"
            /\ \A k \in DOMAIN t : t[k].state = "queued" => j <= k}
    ELSE {}

\* a worker thread returns from generate_image for slide i
image_done(i) ==
    /\ pc \in {"as_completed", "unwind"}
    /\ i \in DOMAIN tasks
    /\ tasks[i].state = "running"
    /\ \E outcome \in ImageOutcomes :
        LET r == generate_image(plan.slides[i].visual_prompt, i, outcome)
            t == [tasks EXCEPT ![i] = Future("done", r)]
        IN tasks' = [j \in DOMAIN t |->
                       IF j \in NextQueued(t) THEN Future("running", NoResult)
                       ELSE t[j]]
    /\ UNCHANGED <<session_vars, guest_admitted, cache_vars, pc, response,
                   form_vars, upload_vars, plan_vars, slides, media_url,
                   video_calls, video_outcome, log_vars, video, threads>>

\* ---------------------------------------------------------- generate_video
\* what the environment does at one step of generate_video: the call raises, or
\* the operation it answers with is done, with or without a generated video
VideoAnswers == [raise : BOOLEAN, done : BOOLEAN, has_video : BOOLEAN]

VideoTerminal == {"Completed", "TimedOut", "Failed"}

\* lines 254-258: except Exception ... return None
VideoRaisedPropagates(v) ==
    [v EXCEPT !.pc = "Raised", !.error = "exception"]
VideoRaised(v) ==
    [v EXCEPT !.pc = "Failed", !.error = "exception", !.ret = None]

\* line 226: while not operation.done and poll_count < max_polls
LoopCondOneMore(v) == ~v.done /\ v.poll_count <= max_polls
LoopCondIgnoresDone(v) == v.poll_count < max_polls
LoopCond(v) == ~v.done /\ v.poll_count < max_polls

\* one step of generate_video(image_path, prompt) from state v under answer a
VideoStep(v, a, image_path) ==
    CASE v.pc = "open" ->
            \* lines 203-204
            IF a.raise THEN VideoRaised(v)
            ELSE [v EXCEPT !.pc = "generate_videos"]
      [] v.pc = "generate_videos" ->
            \* lines 210-224
            IF a.raise THEN VideoRaised(v)
            ELSE [v EXCEPT !.pc = "poll", !.poll_count = 0, !.done = a.done,
                           !.has_video = a.done /\ a.has_video]
      [] v.pc = "poll" ->
            IF LoopCond(v)
            THEN \* lines 227-229
                 IF a.raise THEN VideoRaised(v)
                 ELSE [v EXCEPT !.done = a.done,
                                !.has_video = a.done /\ a.has_video,
                                !.poll_count = @ + 1]
            ELSE IF ~v.done
            THEN \* lines 234-236
                 [v EXCEPT !.pc = "TimedOut", !.error = "timeout", !.ret = None]
            ELSE IF ~v.has_video
            THEN \* lines 239-241
                 [v EXCEPT !.pc = "Failed", !.error = "no video", !.ret = None]
            ELSE [v EXCEPT !.pc = "download"]
      [] v.pc = "download" ->
            \* lines 244-252
            IF a.raise THEN VideoRaised(v)
            ELSE [v EXCEPT !.pc = "Completed", !.ret = VideoUrl(image_path)]
      [] OTHER -> v

\* generate_video is entered
VideoCalled == [VideoIdle EXCEPT !.pc = "open"]

\* a remote video operation, as generate_video meets it in one call: which call
\* raises (if any), and the poll at which the operation first reports done
\* (0: done as submitted; max_polls + 1: not within the polls made)
VideoScenario(fault, done_at, has_video) ==
    [fault |-> fault, done_at |-> done_at, has_video |-> has_video]

VideoScenarios ==
    {VideoScenario(f, max_polls + 1, FALSE) :
        f \in {"none", "open", "generate_videos", "get"}}
    \cup {VideoScenario("none", d, h) : d \in {0, 1}, h \in BOOLEAN}
    \cup {VideoScenario("download", d, TRUE) : d \in {0, 1}}

\* the scenario named where no video operation is submitted
NoVideoScenario == VideoScenario("none", max_polls + 1, FALSE)

\* the answer scenario sc gives to the step taken from v
ScenarioAnswer(sc, v) ==
    [raise |-> \/ v.pc = "open" /\ sc.fault = "open"
               \/ v.pc = "generate_videos" /\ sc.fault = "generate_videos"
               \/ v.pc = "poll" /\ sc.fault = "get"
               \/ v.pc = "download" /\ sc.fault = "download",
     done |-> IF v.pc = "generate_videos" THEN sc.done_at = 0
              ELSE v.poll_count + 1 >= sc.done_at,
     has_video |-> sc.has_video]

RECURSIVE RunVideo(_, _, _)
RunVideo(v, sc, image_path) ==
    IF v.pc \in VideoTerminal THEN v
    ELSE RunVideo(VideoStep(v, ScenarioAnswer(sc, v), image_path), sc, image_path)

\* generate_video(image_path, prompt) run to its return under scenario sc
generate_video(image_path, sc) == RunVideo(VideoCalled, sc, image_path)

\* a call of generate_video followed step by step
video_call ==
    /\ pc = "idle"
    /\ video.pc = "idle"
    /\ video' = VideoCalled
    /\ UNCHANGED <<session_vars, guest_admitted, cache_vars, pc, response,
                   form_vars, upload_vars, plan_vars, batch_vars, log_vars, threads>>

video_step ==
    /\ video.pc \notin VideoTerminal \cup {"idle"}
    /\ \E a \in VideoAnswers : video' = VideoStep(video, a, ImagePath(0))
    /\ UNCHANGED <<session_vars, guest_admitted, cache_vars, pc, response,
                   form_vars, upload_vars, plan_vars, batch_vars, log_vars, threads>>

\* --------------------------------------------- generate: the fan-in loop
\* line 436: the condition of the video step
VideoCondAnySlide(ev, idx, s_data, local_path) ==
    ev /\ s_data.video_prompt /\ local_path # None
VideoCond(ev, idx, s_data, local_path) ==
    ev /\ idx = 0 /\ s_data.video_prompt /\ local_path # None

\* lines 439-441: the video result replaces the image when there is one
ApplyVideoUnchecked(media, video_url) ==
    [media_url |-> video_url, media_type |-> "video"]
ApplyVideo(media, video_url) ==
    IF video_url # None
    THEN [media_url |-> video_url, media_type |-> "video"]
    ELSE media

\* lines 422-449 for one future: result is future.result(), s_data the plan's
\* slide of that index, ev enable_video, mu the local media_url as the previous
\* iterations left it, sc the remote video operation
LoopBody(result, s_data, ev, mu, sc) ==
    LET failed == result.img_url = None
        \* line 427
        img_url == IF failed THEN <<"placeholder.png", -1>> ELSE result.img_url
        \* line 430; the failure branch assigns no media_url
        mu1 == IF failed THEN mu ELSE ImageUrl(result.img_url)
        call == ~failed /\ VideoCond(ev, result.idx, s_data, result.local_path)
        v == IF call THEN generate_video(result.local_path, sc) ELSE VideoIdle
        \* lines 428 and 431, then the video step
        image == [media_url |-> mu1, media_type |-> "image"]
        media == IF call THEN ApplyVideo(image, v.ret) ELSE image
        mu2 == media.media_url
    IN [called |-> call,
        outcome |-> IF call THEN (IF v.pc = "Failed" THEN v.error ELSE v.pc)
                    ELSE "none",
        \* line 447 reads media_url whenever img_url is truthy
        raises |-> img_url # None /\ mu2 = Unbound,
        media_url |-> mu2,
        slide |-> [title |-> s_data.title, content |-> s_data.content,
                   media_url |-> IF img_url # None THEN mu2 ELSE PlaceholderUrl,
                   media_type |-> media.media_type]]

\* as_completed yields the finished future of slide i: one loop iteration
as_completed(i) ==
    /\ pc = "as_completed"
    /\ i \in DOMAIN tasks
    /\ tasks[i].state = "done"
    /\ \E sc \in VideoScenarios :
        LET r == tasks[i].result
            b == LoopBody(r, plan.slides[r.idx], enable_video, media_url, sc)
        IN /\ b.called \/ sc = NoVideoScenario
           /\ tasks' = [tasks EXCEPT ![i] = Future("yielded", NoResult)]
           /\ video_calls' = IF b.called THEN video_calls + 1 ELSE video_calls
           /\ video_outcome' = IF b.called THEN b.outcome ELSE video_outcome
           /\ IF b.raises
              THEN \* UnboundLocalError leaves the loop
                   /\ pc' = "unwind"
                   /\ UNCHANGED <<slides, media_url, threads>>
              ELSE /\ slides' = [slides EXCEPT ![r.idx] = b.slide]
                   /\ media_url' = b.media_url
                   /\ pc' = pc
    /\ UNCHANGED <<session_vars, guest_admitted, cache_vars, response, form_vars,
                   upload_vars, plan_vars, log_vars, video, threads>>

\* the with block is left on an exception: shutdown(wait=True) lets every task
\* finish, then the error leaves the view
unwind ==
    /\ pc = "unwind"
    /\ \A i \in DOMAIN tasks : tasks[i].state \in {"done", "yielded"}
    /\ Return("Internal Server Error")
    /\ UNCHANGED <<session_vars, guest_admitted, cache_vars, plan_outcome,
                   video_calls, video_outcome, log_vars, video, threads>>

\* line 421: as_completed is exhausted when it has yielded every future
LoopDoneEarly(t) == \E i \in DOMAIN t : t[i].state = "yielded"
LoopDone(t) == \A i \in DOMAIN t : t[i].state = "yielded"

\* the loop and the with block end
batch_done ==
    /\ pc = "as_completed"
    /\ LoopDone(tasks)
    /\ pc' = "save"
    /\ UNCHANGED <<session_vars, guest_admitted, cache_vars, response, form_vars,
                   upload_vars, plan_vars, batch_vars, log_vars, video, threads>>

\* lines 452-458
PresentationDerived(title, slides_data, user_id, has_video) ==
    [title |-> title, slides_data |-> slides_data, user_id |-> user_id,
     has_video |-> \E i \in DOMAIN slides_data :
                      slides_data[i].media_type = "video"]
Presentation(title, slides_data, user_id, has_video) ==
    [title |-> title, slides_data |-> slides_data, user_id |-> user_id,
     has_video |-> has_video]

\* lines 452-463
save ==
    /\ pc = "save"
    /\ inserted' = Append(inserted,
                          Presentation(plan.title, slides, user, enable_video))
    /\ Return("success")
    /\ UNCHANGED <<session_vars, guest_admitted, cache_vars, plan_outcome,
                   video_calls, video_outcome, plan_calls, video, threads>>

\* ------------------------------ requests handled at the same time
\* The development server answers each request on a thread of its own, so the
\* requests of one browser session overlap.  session is Flask's cookie session:
\* a request works on the copy that came with it, and the browser keeps the
\* copy of the response that arrived last.  guest_usage is the browser's copy.
\* The session is anonymous (g.user is None).

\* what the sequential requests use stays as it is
request_vars == <<pc, response, form_vars, upload_vars, plan_vars, batch_vars,
                  log_vars, video>>

\* cache.name of the k-th cache the remote side creates
CreatedHandle(k) == <<"cachedContents/architect", k>>

\* lines 336-342 on thread t: a request sent with the browser's session passes
\* the decorator (a denied request changes nothing)
thread_guest_limit_check(t) ==
    /\ threads[t].pc = "idle"
    /\ guest_admitted < GuestLimit + MaxOverQuota
    /\ GateOpen(FALSE, guest_usage)
    /\ threads' = [threads EXCEPT ![t] = [pc |-> "generate",
                                          session |-> guest_usage,
                                          cached_name |-> None]]
    /\ guest_admitted' = guest_admitted + 1
    /\ UNCHANGED <<session_vars, cache_vars, request_vars>>

\* lines 383-390 on thread t, the form being one int() accepts: the request's
\* session copy is raised by one
thread_generate_begin(t) ==
    /\ threads[t].pc = "generate"
    /\ threads' = [threads EXCEPT ![t].session = @ + 1,
                                  ![t].pc = "get_cached_architect"]
    /\ UNCHANGED <<session_vars, guest_admitted, cache_vars, request_vars>>

\* line 142 on thread t: the global is read
thread_cache_check(t) ==
    /\ threads[t].pc = "get_cached_architect"
    /\ threads' = IF cached_architect_name # None
                  THEN \* line 156
                       [threads EXCEPT ![t].cached_name = cached_architect_name,
                                       ![t].pc = "respond"]
                  ELSE [threads EXCEPT ![t].pc = "caches.create"]
    /\ UNCHANGED <<session_vars, guest_admitted, cache_vars, request_vars>>

\* lines 143-156 on thread t: the remote call returns and the global is
\* assigned, or the call raises
thread_cache_create(t) ==
    /\ threads[t].pc = "caches.create"
    /\ \E created \in BOOLEAN :
        /\ ~created => create_calls < MaxCacheFailures
        /\ LET name == IF created THEN CreatedHandle(create_calls + 1)
                        ELSE None
           IN /\ cached_architect_name' = IF created THEN name
                                          ELSE cached_architect_name
              /\ threads' = [threads EXCEPT ![t].cached_name = name,
                                            ![t].pc = "respond"]
    /\ create_calls' = create_calls + 1
    /\ UNCHANGED <<session_vars, guest_admitted, request_vars>>

\* the rest of generate on thread t, which touches neither the session nor the
\* global, and the response: the browser stores the session copy it carries
thread_respond(t) ==
    /\ threads[t].pc = "respond"
    /\ guest_usage' = threads[t].session
    /\ threads' = [threads EXCEPT ![t] = ThreadIdle]
    /\ UNCHANGED <<user, guest_admitted, cache_vars, request_vars>>

\* ------------------------------------------------------- specifications
Next ==
    \/ login
    \/ logout
    \/ guest_limit_check
    \/ generate_begin
    \/ plan_prompt
    \/ upload_pdf
    \/ upload_poll
    \/ get_cached_architect
    \/ generate_content
    \/ generate_planned
    \/ submit
    \/ \E i \in 0..(MaxSlides - 1) : image_done(i)
    \/ \E i \in 0..(MaxSlides - 1) : as_completed(i)
    \/ unwind
    \/ batch_done
    \/ save

\* requests of one session, one after the other
Spec == Init /\ [][Next]_vars

NextVideo == video_call \/ video_step

\* one call of generate_video, step by step
SpecVideo == Init /\ [][NextVideo]_vars

NextConcurrent ==
    \E t \in Threads :
        \/ thread_guest_limit_check(t)
        \/ thread_generate_begin(t)
        \/ thread_cache_check(t)
        \/ thread_cache_create(t)
        \/ thread_respond(t)

\* overlapping requests of one anonymous session
SpecConcurrent == Init /\ [][NextConcurrent]_vars

\* a guest request without video whose planner has answered with n slides, as
\* it stands at line 415
InitPool ==
    /\ user = FALSE
    /\ guest_usage = 1
    /\ guest_admitted = 1
    /\ cached_architect_name = CacheHandle
    /\ create_calls = 1
    /\ pc = "submit"
    /\ response = "none"
    /\ form_slide_count = "absent"
    /\ slide_count = DefaultSlideCount
    /\ enable_video = FALSE
    /\ pdf_path = FALSE
    /\ contents = <<>>
    /\ file_ref = "none"
    /\ upload_polls = 0
    /\ cached_name = None
    /\ plan_outcome = "ok"
    /\ \E n \in 0..MaxPoolSlides :
        /\ plan = PlanOf(n, TRUE)
        /\ slides = [i \in 0..(n - 1) |-> NoSlide]
    /\ tasks = Empty
    /\ media_url = Unbound
    /\ plan_calls = 1
    /\ video_calls = 0
    /\ video_outcome = "none"
    /\ inserted = <<>>
    /\ video = VideoIdle
    /\ threads = [t \in Threads |-> ThreadIdle]

NextPool ==
    \/ submit
    \/ \E i \in 0..(MaxPoolSlides - 1) : image_done(i)
    \/ \E i \in 0..(MaxPoolSlides - 1) : as_completed(i)
    \/ unwind
    \/ batch_done
    \/ save

\* the batch of one request with more slides than workers
SpecPool == InitPool /\ [][NextPool]_vars

\* ------------------------------------------------------------- properties
PlanFailures == {"call_error", "parse_error"}
VideoFailures == {"TimedOut", "no video", "exception"}

\* the slide-0 entry of the request: in slides while the request runs, in the
\* Presentation it inserted once it has returned
Slide0 == IF pc = "idle" THEN inserted[1].slides_data[0] ELSE slides[0]

\* C1: the batch stage of generate never ends by an exception, and when it has
\* ended slides has one entry per plan slide, none of them None, entry i with
\* the title and content of plan slide i.
C1_BatchYieldsEverySlide ==
    /\ pc # "unwind"
    /\ pc = "save" =>
          /\ DOMAIN slides = DOMAIN plan.slides
          /\ \A i \in DOMAIN slides :
                /\ slides[i] # NoSlide
                /\ slides[i].title = plan.slides[i].title
                /\ slides[i].content = plan.slides[i].content

\* C2: the loop iteration that handles a failed image task of slide i (its
\* result has img_url None) stores for slide i the placeholder URL with media
\* type image.
C2_FailedImageGetsPlaceholder ==
    [][\A i \in DOMAIN tasks :
          (/\ tasks[i].state = "done"
           /\ tasks[i].result.img_url = None
           /\ i \in DOMAIN tasks'
           /\ tasks'[i].state = "yielded")
          => (/\ i \in DOMAIN slides'
              /\ slides'[i].media_url = PlaceholderUrl
              /\ slides'[i].media_type = "image")]_vars

\* C3: a slide entry has media type video only if it is entry 0, enable_video
\* is set and the video was made from slide 0's own saved image (its image task
\* succeeded); generate_video is called at most once in a request; the same
\* holds of the entries of an inserted Presentation.
C3_VideoOnlyOnSlideZero ==
    /\ video_calls <= 1
    /\ video_calls = 1 => (pc = "idle" \/ enable_video)
    /\ \A i \in DOMAIN slides :
          slides[i].media_type = "video" =>
             /\ i = 0
             /\ enable_video
             /\ video_calls = 1
             /\ slides[i].media_url = VideoUrl(ImagePath(0))
    /\ \A k \in 1..Len(inserted) : \A i \in DOMAIN inserted[k].slides_data :
          inserted[k].slides_data[i].media_type = "video" =>
             /\ i = 0
             /\ inserted[k].has_video
             /\ inserted[k].slides_data[i].media_url = VideoUrl(ImagePath(0))

\* a second slide exists and entry 0 became a video
C3_Witness ==
    /\ pc = "save"
    /\ DOMAIN slides = 0..1
    /\ slides[0].media_type = "video"
    /\ slides[1].media_type = "image"

\* C4: of the requests a guest session sends, no more than GuestLimit get past
\* the decorator (the 16th and every later one is denied), and none of the
\* first GuestLimit is denied.
C4_GuestQuota ==
    /\ guest_admitted <= GuestLimit
    /\ response = "Guest limit reached" => guest_admitted >= GuestLimit

C6_TimeoutAfterMaxPolls ==
    /\ video.poll_count <= max_polls
    /\ video.pc = "TimedOut" =>
          /\ video.poll_count = max_polls
          /\ ~video.done
          /\ video.ret = None
    /\ (video.pc \in VideoTerminal /\ ~video.done /\ video.error # "exception") =>
          /\ video.pc = "TimedOut"
          /\ video.poll_count = max_polls

C6_Witness == video.pc = "TimedOut" /\ video.poll_count = max_polls

\* C7: when the planning request or json.loads fails, generate uses no plan:
\* nothing is submitted to the executor, generate_video is not called, no
\* Presentation is inserted, and the request returns 'Planning Failed'.
C7_PlanningFailureAborts ==
    /\ [](plan_outcome \in PlanFailures =>
            /\ pc \in {"planned", "idle"}
            /\ plan = NonePlan
            /\ tasks = Empty
            /\ slides = Empty
            /\ video_calls = 0
            /\ inserted = <<>>)
    /\ [][(plan_outcome \in PlanFailures /\ pc = "planned") =>
             (pc' = "idle" /\ response' = "Planning Failed")]_vars

C7_Witness ==
    /\ plan_outcome = "parse_error"
    /\ pc = "idle"
    /\ response = "Planning Failed"

\* C8: when the request's generate_video call failed (timeout, no video in the
\* response, exception) entry 0 holds the URL of slide 0's own image with media
\* type image; when it completed, entry 0 holds the video URL with media type
\* video; in both cases the request goes on to insert its Presentation.
C8_VideoFailureKeepsImage ==
    video_outcome # "none" =>
        /\ pc \in {"as_completed", "save", "idle"}
        /\ pc = "idle" => Len(inserted) = 1
        /\ video_outcome \in VideoFailures =>
              /\ Slide0.media_url = ImageUrl(ImageFile(0))
              /\ Slide0.media_type = "image"
        /\ video_outcome = "Completed" =>
              /\ Slide0.media_url = VideoUrl(ImagePath(0))
              /\ Slide0.media_type = "video"

\* the video step timed out and the request inserted its Presentation
C8_Witness ==
    /\ video_outcome = "TimedOut"
    /\ pc = "idle"
    /\ Len(inserted) = 1
    /\ inserted[1].slides_data[0].media_type = "image"

C10_PersistOnceComplete ==
    /\ [](/\ Len(inserted) <= 1
          /\ \A k \in 1..Len(inserted) : \A i \in DOMAIN inserted[k].slides_data :
                inserted[k].slides_data[i] # NoSlide)
    /\ [][inserted' \notin {inserted, <<>>} =>
             /\ inserted = <<>>
             /\ pc = "save"
             /\ \A i \in DOMAIN tasks : tasks[i].state = "yielded"
             /\ DOMAIN tasks = DOMAIN plan.slides
             /\ DOMAIN inserted'[1].slides_data = DOMAIN plan.slides]_vars

\* a two-slide Presentation was inserted
C10_Witness ==
    /\ Len(inserted) = 1
    /\ DOMAIN inserted[1].slides_data = 0..1

\* C11: whatever the order in which the futures complete, entry i of slides
\* carries the title and content of plan slide i and a media URL made for slide
\* i (its image, the video made from its image, or the placeholder), never a
\* URL made for another slide.
C11_SlotHoldsOwnMedia ==
    \A i \in DOMAIN slides :
        slides[i] # NoSlide =>
            /\ slides[i].title = plan.slides[i].title
            /\ slides[i].content = plan.slides[i].content
            /\ slides[i].media_url \in {ImageUrl(ImageFile(i)),
                                        VideoUrl(ImagePath(i)),
                                        PlaceholderUrl}

\* C12: a request whose planning succeeded returns 'success' with exactly one
\* Presentation inserted, whichever image tasks and video step failed.
C12_PlannedRequestSucceeds ==
    [][(plan_outcome = "ok" /\ pc # "idle" /\ pc' = "idle") =>
          (response' = "success" /\ Len(inserted') = 1)]_vars

\* C13: however the requests overlap, no client.caches.create call is issued
\* once a cache has been created, so callers that all found no handle issue
\* one creation between them.
C13_OneCreationAmongRacers ==
    [][create_calls' # create_calls => cached_architect_name = None]_vars

\* how far a generate_video run stands: reading the image, submitting, polling,
\* downloading, returned
VideoRank(p) ==
    CASE p = "open" -> 0
      [] p = "generate_videos" -> 1
      [] p = "poll" -> 2
      [] p = "download" -> 3
      [] p \in VideoTerminal -> 4
      [] OTHER -> -1

\* C14: a generate_video run stands at one of its four steps or has returned as
\* exactly one of Completed (with the video URL), TimedOut or Failed (both with
\* None); an exception raised at any step (reading the image, submitting,
\* polling, downloading) makes the run Failed; and every step either moves the
\* run on or is one more of at most max_polls polls, so the run returns.
C14_VideoEndsInOneOutcome ==
    /\ [](/\ video.pc \in {"idle", "open", "generate_videos", "poll", "download"}
                           \cup VideoTerminal
          /\ video.pc = "Completed" =>
                /\ video.ret = VideoUrl(ImagePath(0))
                /\ video.error = "none"
                /\ video.done /\ video.has_video
          /\ video.pc = "TimedOut" =>
                video.ret = None /\ video.error = "timeout"
          /\ video.pc = "Failed" =>
                video.ret = None /\ video.error \in {"exception", "no video"}
          /\ video.pc \notin VideoTerminal =>
                video.ret = None /\ video.error = "none")
    /\ [][video.pc # "idle" =>
             \/ VideoRank(video'.pc) > VideoRank(video.pc)
             \/ /\ video.pc = "poll" /\ video'.pc = "poll"
                /\ video'.poll_count = video.poll_count + 1
                /\ video'.poll_count <= max_polls]_vars

\* the download raised after the operation had reported a generated video
C14_Witness ==
    /\ video.pc = "Failed"
    /\ video.error = "exception"
    /\ video.done
    /\ video.has_video

\* the image tasks that are running on a worker thread
Running == {i \in DOMAIN tasks : tasks[i].state = "running"}

\* C15: once the batch is submitted there is exactly one image task per slide
\* index of the plan, each working on its own index, and never more than
\* max_workers of them are running at the same time.
C15_OneTaskPerSlideFiveRunning ==
    /\ pc \in {"as_completed", "unwind", "save"} =>
          DOMAIN tasks = DOMAIN plan.slides
    /\ \A i \in DOMAIN tasks :
          tasks[i].state = "done" => tasks[i].result.idx = i
    /\ Cardinality(Running) <= max_workers

\* more slides than workers: every worker is busy and a task waits
C15_Witness ==
    /\ Cardinality(DOMAIN tasks) > max_workers
    /\ Cardinality(Running) = max_workers
    /\ \E i \in DOMAIN tasks : tasks[i].state = "queued"

\* C16: once a handle is stored in the global, no step replaces or clears it
\* or issues a client.caches.create call, and a call of get_cached_architect
\* that reads the global returns the stored handle.
C16_StoredHandleKept ==
    [][cached_architect_name # None =>
          /\ cached_architect_name' = cached_architect_name
          /\ create_calls' = create_calls
          /\ \A t \in Threads :
                (threads[t].pc = "get_cached_architect" /\ threads'[t] # threads[t])
                   => threads'[t].cached_name = cached_architect_name]_vars

\* C17: the slide count the planner is called with is positive, and a request
\* whose slide_count field is absent, no integer or not positive goes on to
\* planning with the default count.
C17_SlideCountValidated ==
    /\ [](pc \in {"plan_presentation", "upload_poll", "get_cached_architect",
                  "generate_content"} => slide_count > 0)
    /\ [][pc = "generate" =>
             /\ pc' = "plan_presentation"
             /\ LET v == int_slide_count(form_slide_count)
                IN (v = None \/ v[2] <= 0) => slide_count' = DefaultSlideCount]_vars

\* C18: a request issues exactly one planning request; when a document was
\* submitted and the upload or a status poll raised, contents holds the prompt
\* alone, without file reference and without the document note; contents holds
\* the file reference only when the file's state is PROCESSING no more.
C18_UploadFailureStillPlans ==
    /\ [](/\ plan_calls <= 1
          /\ plan_outcome # "none" => plan_calls = 1
          /\ pc \in {"get_cached_architect", "generate_content"} =>
                /\ plan_calls = 0
                /\ (pdf_path /\ file_ref # "ACTIVE") => contents = <<"user_prompt">>
                /\ contents # <<"user_prompt">> =>
                      /\ contents = <<"file_ref", "user_prompt + pdf note">>
                      /\ pdf_path
                      /\ file_ref = "ACTIVE")
    /\ [][pc = "generate_content" =>
             (pc' = "planned" /\ plan_calls' = 1 /\ plan_outcome' # "none")]_vars

\* a status poll raised and the planning request is about to be issued
C18_Witness ==
    /\ pc = "generate_content"
    /\ pdf_path
    /\ file_ref = "PROCESSING"
    /\ upload_polls >= 1
    /\ contents = <<"user_prompt">>

\* C19: however the requests of one anonymous session overlap, no more than
\* GuestLimit of them get past the decorator, and no request carries a count
\* above GuestLimit.
C19_QuotaUnderConcurrency ==
    /\ guest_admitted <= GuestLimit
    /\ \A t \in Threads :
          threads[t].pc # "idle" => threads[t].session <= GuestLimit

\* C20: the Presentation a request inserts has has_video equal to the request's
\* enable_video flag, whatever its slide entries hold.
C20_HasVideoIsTheFlag ==
    [][inserted' \notin {inserted, <<>>} =>
          /\ Len(inserted') = 1
          /\ inserted'[1].has_video = enable_video
          /\ inserted'[1].slides_data = slides]_vars

\* a Presentation with has_video set and slides, none of which is a video
C20_Witness ==
    /\ Len(inserted) = 1
    /\ inserted[1].has_video
    /\ DOMAIN inserted[1].slides_data # {}
    /\ \A i \in DOMAIN inserted[1].slides_data :
          inserted[1].slides_data[i].media_type = "image"

\* C21: in a generate_video run the operation is first reported done either as
\* submitted (no poll made) or by a poll, which is then the last one: from then
\* on the poll count stays what it is and the run does not end TimedOut, also
\* when that poll is the max_polls-th; the poll count never exceeds max_polls.
C21_PollsUntilDone ==
    /\ [](/\ video.poll_count <= max_polls
          /\ video.pc = "TimedOut" => ~video.done)
    /\ [][/\ video.done =>
                /\ video'.done
                /\ video'.poll_count = video.poll_count
                /\ video'.pc # "TimedOut"
          /\ (~video.done /\ video'.done) =>
                \/ video.pc = "generate_videos" /\ video'.poll_count = 0
                \/ /\ video.pc = "poll"
                   /\ video'.poll_count = video.poll_count + 1]_vars

\* the operation reported done at the max_polls-th poll and the run completed
C21_Witness ==
    /\ video.pc = "Completed"
    /\ video.done
    /\ video.poll_count = max_polls

====
